---- MODULE Spec2Model ----
(***************************************************************************)
(* A model of minecraft_world_trimmer: the region (container) codec, the   *)
(* chunk (record) codec, the deletion predicate and the three file-        *)
(* touching commands (write = sweep, palette export, palette import).      *)
(*                                                                         *)
(* Bytes are abstracted as follows.  A region file is its length, its two  *)
(* header tables (kept sparse: a slot that is absent holds four zero       *)
(* bytes) and the sequence of records that follow the header, each padded  *)
(* to whole sectors.  A compressed payload is the codec that produced it,  *)
(* the tree it encodes and its length in bytes; a payload no decoder       *)
(* accepts has codec "none".  A tree is the fields the program consults.   *)
(***************************************************************************)
EXTENDS Integers, Sequences, FiniteSets, TLC

(* ------------------------------ bounds -------------------------------- *)

\* slots of the header that an initial file may populate (slots 0..MaxChunks-1)
MaxChunks == 2
\* rows of an imported CSV file
MaxRows == 2

(* --------------------------- program constants ------------------------ *)

LOCATION_TABLE_SIZE == 4096
TIMESTAMP_TABLE_SIZE == 4096
HEADER_SIZE == LOCATION_TABLE_SIZE + TIMESTAMP_TABLE_SIZE
SECTOR_SIZE == 4096
CHUNK_HEADER_SIZE == 5
STATUS_FULL == "minecraft:full"
IMPORT_LEVEL == 6

(* ------------------------------ the tree ------------------------------ *)

\* A tag is its kind and its value (s for a string, n for a number).
NoTag == [kind |-> "none", s |-> "", n |-> 0]
StringTag(v) == [kind |-> "String", s |-> v, n |-> 0]
IntTag(v) == [kind |-> "Int", s |-> "", n |-> v]
LongTag(v) == [kind |-> "Long", s |-> "", n |-> v]

\* Option: None, or Some(v) for a number or a string
None == [none |-> TRUE]
Some(v) == [some |-> v]

TagNames == {"Status", "InhabitedTime", "xPos", "zPos"}

\* Tag::find_tag: the first child of that name, None when there is none
find_tag(nbt, name) ==
    IF name \in TagNames /\ nbt.tags[name].kind # "none" THEN nbt.tags[name] ELSE None

\* Tag::get_string, get_int, get_long: None on a tag of another kind
get_string(tag) == IF tag # None /\ tag.kind = "String" THEN Some(tag.s) ELSE None
get_int(tag) == IF tag # None /\ tag.kind = "Int" THEN Some(tag.n) ELSE None
get_long(tag) == IF tag # None /\ tag.kind = "Long" THEN Some(tag.n) ELSE None

\* Chunk::count_block: occurrences of the block id in the tree's palettes
count_block(chunk, id) ==
    IF chunk.nbt # None /\ id \in DOMAIN chunk.nbt.palette
    THEN chunk.nbt.palette[id] ELSE 0

(* ------------------------- compression schemes ------------------------ *)

Gzip == [tag |-> "Gzip", byte |-> 0]
Zlib == [tag |-> "Zlib", byte |-> 0]
Lz4 == [tag |-> "Lz4", byte |-> 0]
Unknown(b) == [tag |-> "Unknown", byte |-> b]

from_u8(byte) ==
    CASE byte = 1 -> Gzip
      [] byte = 2 -> Zlib
      [] byte = 4 -> Lz4
      [] OTHER -> Unknown(byte)

\* to_u8 with the other build variant's byte for Lz4
to_u8_lz4_as_3(scheme) ==
    CASE scheme.tag = "Gzip" -> 1
      [] scheme.tag = "Zlib" -> 2
      [] scheme.tag = "Lz4" -> 3
      [] OTHER -> scheme.byte

to_u8(scheme) ==
    CASE scheme.tag = "Gzip" -> 1
      [] scheme.tag = "Zlib" -> 2
      [] scheme.tag = "Lz4" -> 4
      [] OTHER -> scheme.byte

\* the decoders of from_location: the tree's bytes, or an error (None) when
\* the payload is not a stream of that codec
Decompress(scheme, payload) ==
    IF payload.codec = scheme.tag THEN payload.tree ELSE None

\* the encoders of Chunk::to_bytes; level 0 stores, any other level deflates
Compress(scheme, nbt, level) ==
    [codec |-> scheme.tag, tree |-> nbt,
     len |-> IF level = 0 /\ scheme.tag # "Lz4" THEN nbt.size ELSE nbt.zsize]

(* ------------------------------ locations ----------------------------- *)

\* Location::new(position, size, timestamp): bytes to sectors
LocationNew(position, size, timestamp) ==
    [offset |-> position \div SECTOR_SIZE, size |-> size \div SECTOR_SIZE,
     timestamp |-> timestamp]

\* Location::from_bytes: the 4-byte entry is offset (3 bytes), count (1 byte)
LocationFromBytes(l, timestamp) ==
    [offset |-> l \div 256, size |-> l % 256, timestamp |-> timestamp]

to_location_bytes(location) ==
    (location.offset % 16777216) * 256 + (location.size % 256)
to_timestamp_bytes(location) == location.timestamp
is_valid(location) == location.offset # 0 \/ location.size # 0
get_offset(location) == location.offset * SECTOR_SIZE
get_timestamp(location) == location.timestamp

\* get_u32 on a header table: a slot the sparse table lacks holds zeros
get_u32(table, i) == IF i \in DOMAIN table THEN table[i] ELSE 0

(* ------------------------------- chunks ------------------------------- *)

\* align_vec_size: the length rounded up to whole sectors
align_vec_size(len) == ((len + 4095) \div 4096) * 4096

\* the bytes a record occupies on disk: length prefix, scheme byte, payload, padding
RecordBytes(rec) == align_vec_size(rec.payload.len + CHUNK_HEADER_SIZE)

RECURSIVE DataLen(_)
\* the length of the records area
DataLen(data) ==
    IF data = <<>> THEN 0 ELSE RecordBytes(Head(data)) + DataLen(Tail(data))

\* the byte position at which the k-th record of the file starts
RecordStart(data, k) == HEADER_SIZE + DataLen(SubSeq(data, 1, k - 1))

\* the record of the file that starts at the byte position, 0 when none does
RecordAt(file, offset) ==
    IF \E k \in 1..Len(file.data) : RecordStart(file.data, k) = offset
    THEN CHOOSE k \in 1..Len(file.data) : RecordStart(file.data, k) = offset
    ELSE 0

\* Chunk::from_location: a chunk, "Err" when the decoder fails, "Panic" when
\* the location points outside the records of the buffer
from_location(file, location) ==
    LET k == RecordAt(file, get_offset(location)) IN
    IF k = 0 THEN [tag |-> "Panic"]
    ELSE
      LET rec == file.data[k]
          compression_scheme == from_u8(rec.scheme)
          decoded == IF compression_scheme.tag = "Unknown" THEN rec.payload
                     ELSE Decompress(compression_scheme, rec.payload)
      IN  IF decoded = None THEN [tag |-> "Err"]
          ELSE IF compression_scheme.tag = "Unknown"
          THEN [tag |-> "Ok",
                chunk |-> [nbt |-> None, location |-> location,
                           compression_scheme |-> compression_scheme,
                           raw_bytes |-> decoded]]
          ELSE [tag |-> "Ok",
                chunk |-> [nbt |-> decoded, location |-> location,
                           compression_scheme |-> compression_scheme,
                           raw_bytes |-> None]]

\* Chunk::to_bytes with to_bytes_compression_scheme: the record written back
ChunkToBytes(chunk, level) ==
    IF chunk.nbt # None /\ chunk.compression_scheme.tag # "Unknown"
    THEN [scheme |-> to_u8(chunk.compression_scheme),
          payload |-> Compress(chunk.compression_scheme, chunk.nbt, level)]
    ELSE [scheme |-> to_u8(chunk.compression_scheme), payload |-> chunk.raw_bytes]

\* Chunk::get_position
get_position(chunk) ==
    IF chunk.nbt = None THEN None
    ELSE LET x == get_int(find_tag(chunk.nbt, "xPos"))
             z == get_int(find_tag(chunk.nbt, "zPos"))
         IN  IF x # None /\ z # None THEN Some(<<x.some, z.some>>) ELSE None

is_fully_generated(chunk) ==
    IF chunk.nbt = None THEN FALSE
    ELSE LET status == get_string(find_tag(chunk.nbt, "Status"))
         IN  IF status = None THEN FALSE ELSE status.some = STATUS_FULL

\* has_been_inhabited with the comparison off by one
has_been_inhabited_ge(chunk) ==
    LET t == IF chunk.nbt = None THEN None
             ELSE get_long(find_tag(chunk.nbt, "InhabitedTime"))
        inhabited_time == IF t = None THEN 0 ELSE t.some
    IN  inhabited_time >= 0

has_been_inhabited(chunk) ==
    LET t == IF chunk.nbt = None THEN None
             ELSE get_long(find_tag(chunk.nbt, "InhabitedTime"))
        inhabited_time == IF t = None THEN 0 ELSE t.some
    IN  inhabited_time > 0

should_delete(chunk) == ~is_fully_generated(chunk) \/ ~has_been_inhabited(chunk)


(* ------------------------------- regions ------------------------------ *)

\* get_position_in_table: x & 31 on a two's complement i32 is x modulo 32
get_position_in_table(x, z) == 4 * ((x % 32) + (z % 32) * 32)

\* a header table with the entry at index i set to the 4-byte value v
PutU32(table, i, v) ==
    IF v = 0 THEN [j \in DOMAIN table \ {i} |-> table[j]]
    ELSE [j \in DOMAIN table \cup {i} |-> IF j = i THEN v ELSE table[j]]

EmptyTable == [j \in {} |-> 0]

RECURSIVE SortedSeq(_)
\* the numbers of a finite set in increasing order
SortedSeq(S) ==
    IF S = {} THEN <<>>
    ELSE LET m == CHOOSE a \in S : \A b \in S : a <= b
         IN  <<m>> \o SortedSeq(S \ {m})

RECURSIVE FromBytesLoop(_, _, _)
\* the loop of Region::from_bytes over the table indices still to read
FromBytesLoop(file, indices, chunks) ==
    IF indices = <<>> THEN [tag |-> "Ok", chunks |-> chunks, is_modified |-> FALSE]
    ELSE LET i == Head(indices)
             l == get_u32(file.loc, i)
             timestamp == get_u32(file.ts, i)
             location == LocationFromBytes(l, timestamp)
             r == from_location(file, location)
         IN  IF ~is_valid(location) THEN FromBytesLoop(file, Tail(indices), chunks)
             ELSE IF r.tag = "Panic" THEN [tag |-> "Panic"]
             ELSE IF r.tag = "Ok"
             THEN FromBytesLoop(file, Tail(indices), Append(chunks, r.chunk))
             ELSE FromBytesLoop(file, Tail(indices), chunks)

\* Region::from_bytes; the indices a sparse table lacks hold no location
from_bytes(file) ==
    IF file.len < HEADER_SIZE THEN [tag |-> "HeaderError"]
    ELSE FromBytesLoop(file, SortedSeq(DOMAIN file.loc), <<>>)

\* Region::from_file_name with try_read_bytes
from_file_name(file) ==
    IF file.st # "ok" THEN [tag |-> "ReadError"] ELSE from_bytes(file)

RECURSIVE ToBytesLoop(_, _, _, _, _)
\* the loop of Region::to_bytes over the chunks still to write
ToBytesLoop(chunks, level, data, location_table, timestamp_table) ==
    IF chunks = <<>>
    THEN [st |-> "ok", len |-> HEADER_SIZE + DataLen(data),
          loc |-> location_table, ts |-> timestamp_table, data |-> data]
    ELSE LET chunk == Head(chunks)
             serialized == ChunkToBytes(chunk, level)
             new_position == DataLen(data) + HEADER_SIZE
             new_size == RecordBytes(serialized)
             original_timestamp == get_timestamp(chunk.location)
             new_location == LocationNew(new_position, new_size, original_timestamp)
             position == get_position(chunk)
         IN  IF position # None
             THEN LET position_in_table ==
                          get_position_in_table(position.some[1], position.some[2])
                  IN  ToBytesLoop(Tail(chunks), level, Append(data, serialized),
                          PutU32(location_table, position_in_table,
                                 to_location_bytes(new_location)),
                          PutU32(timestamp_table, position_in_table,
                                 to_timestamp_bytes(new_location)))
             ELSE ToBytesLoop(Tail(chunks), level, Append(data, serialized),
                              location_table, timestamp_table)

\* Region::to_bytes
to_bytes(region, level) ==
    ToBytesLoop(region.chunks, level, <<>>, EmptyTable, EmptyTable)

\* Region::get_chunk: the index of the first chunk at (x, z), 0 for None
get_chunk(region, x, z) ==
    LET hits == {k \in 1..Len(region.chunks) : get_position(region.chunks[k]) = Some(<<x, z>>)}
    IN  IF hits = {} THEN 0 ELSE CHOOSE k \in hits : \A j \in hits : k <= j

get_chunk_count(region) == Len(region.chunks)

\* remove_chunk_by_index that does not mark the region as modified
remove_chunk_by_index_unmarked(region, index) ==
    IF region.tag # "Ok" \/ index >= Len(region.chunks) THEN [tag |-> "Panic"]
    ELSE [tag |-> "Ok",
          chunks |-> SubSeq(region.chunks, 1, index)
                     \o SubSeq(region.chunks, index + 2, Len(region.chunks)),
          is_modified |-> region.is_modified]

\* Region::remove_chunk_by_index (indices from 0, as in the source); an index
\* past the end panics
remove_chunk_by_index(region, index) ==
    IF region.tag # "Ok" \/ index >= Len(region.chunks) THEN [tag |-> "Panic"]
    ELSE [tag |-> "Ok",
          chunks |-> SubSeq(region.chunks, 1, index)
                     \o SubSeq(region.chunks, index + 2, Len(region.chunks)),
          is_modified |-> TRUE]

is_empty(region) == region.chunks = <<>>
is_modified(region) == region.is_modified

RECURSIVE RemoveInOrder(_, _)
\* remove_chunk_by_index for each index of the sequence, in its order
RemoveInOrder(region, indices) ==
    IF indices = <<>> \/ region.tag # "Ok" THEN region
    ELSE RemoveInOrder(remove_chunk_by_index(region, Head(indices)), Tail(indices))

\* .iter().rev()
Rev(s) == [k \in 1..Len(s) |-> s[Len(s) + 1 - k]]

\* the loop without .rev(): lowest index first
RemoveIndices_forward(region, indices) == RemoveInOrder(region, indices)

\* the loop `for &index in chunks_to_delete_indices.iter().rev()`
RemoveIndices(region, indices) == RemoveInOrder(region, Rev(indices))

(* ---------------------------- the file system ------------------------- *)

Missing == [st |-> "missing", len |-> 0, loc |-> EmptyTable, ts |-> EmptyTable, data |-> <<>>]

\* std::fs::remove_file: fails on a file that is not there (or cannot be unlinked)
remove_file(file, isLocked) ==
    IF file.st = "missing" \/ isLocked THEN [ok |-> FALSE, file |-> file]
    ELSE [ok |-> TRUE, file |-> Missing]

\* std::fs::write: creates the file or replaces its whole content
fs_write(file, isLocked, bytes) ==
    IF isLocked THEN [ok |-> FALSE, file |-> file] ELSE [ok |-> TRUE, file |-> bytes]

(* ------------------------------ commands ------------------------------ *)

\* OptimizeResult::default
Zero == [total_chunks |-> 0, deleted_chunks |-> 0, deleted_regions |-> 0]

\* the sum that reduce_optimize_results folds with
Merge(a, b) ==
    [total_chunks |-> a.total_chunks + b.total_chunks,
     deleted_chunks |-> a.deleted_chunks + b.deleted_chunks,
     deleted_regions |-> a.deleted_regions + b.deleted_regions]

\* optimize_write: the indices (from 0) of the chunks that should_delete
chunks_to_delete_indices(region) ==
    SortedSeq({i \in 0..(Len(region.chunks) - 1) : should_delete(region.chunks[i + 1])})

\* write_unparsed that leaves the file and counts nothing
write_unparsed_skip(file, isLocked) ==
    [tag |-> "Ok", result |-> Zero, file |-> file, io |-> "none"]

\* optimize_write, the arm for a region that could not be parsed
write_unparsed(file, isLocked) ==
    LET r == remove_file(file, isLocked)
    IN  [tag |-> IF r.ok THEN "Ok" ELSE "Err",
         result |-> [Zero EXCEPT !.deleted_regions = 1],
         file |-> r.file, io |-> "remove"]

\* optimize_write on the file at a path: what it returns (tag Ok or Err, or a
\* panic), the file it leaves and the file operation it attempted
optimize_write(file, isLocked, level) ==
    LET parsed == from_file_name(file) IN
    IF parsed.tag = "Panic"
    THEN [tag |-> "Panic", result |-> Zero, file |-> file, io |-> "none"]
    ELSE IF parsed.tag = "Ok"
    THEN LET indices == chunks_to_delete_indices(parsed)
             region == RemoveIndices(parsed, indices)
             counted == [total_chunks |-> get_chunk_count(parsed),
                         deleted_chunks |-> Len(indices), deleted_regions |-> 0]
         IN  IF region.tag = "Panic"
             THEN [tag |-> "Panic", result |-> Zero, file |-> file, io |-> "none"]
             ELSE IF is_empty(region)
             THEN LET r == remove_file(file, isLocked)
                  IN  [tag |-> IF r.ok THEN "Ok" ELSE "Err",
                       result |-> [counted EXCEPT !.deleted_regions = 1],
                       file |-> r.file, io |-> "remove"]
             ELSE IF is_modified(region)
             THEN LET r == fs_write(file, isLocked, to_bytes(region, level))
                  IN  [tag |-> IF r.ok THEN "Ok" ELSE "Err", result |-> counted,
                       file |-> r.file, io |-> "write"]
             ELSE [tag |-> "Ok", result |-> counted, file |-> file, io |-> "none"]
    ELSE write_unparsed(file, isLocked)

\* the filter of optimize_palette_export on one chunk
ExportMatches(chunk, id_filter, count_threshold) ==
    IF id_filter # None
    THEN IF count_threshold # None
         THEN count_block(chunk, id_filter.some) >= count_threshold.some
         ELSE count_block(chunk, id_filter.some) > 0
    ELSE should_delete(chunk)

\* optimize_palette_export: the rows for one region file; an unreadable file
\* gives none
optimize_palette_export(path, file, id_filter, count_threshold) ==
    LET parsed == from_file_name(file) IN
    IF parsed.tag = "Panic" THEN [tag |-> "Panic", rows |-> <<>>]
    ELSE IF parsed.tag = "Ok"
    THEN LET hit(k) == /\ ExportMatches(parsed.chunks[k], id_filter, count_threshold)
                       /\ get_position(parsed.chunks[k]) # None
             ks == SortedSeq({k \in 1..Len(parsed.chunks) : hit(k)})
         IN  [tag |-> "Ok",
              rows |-> [j \in 1..Len(ks) |->
                          [region_file_path |-> path,
                           chunk_x |-> get_position(parsed.chunks[ks[j]]).some[1],
                           chunk_z |-> get_position(parsed.chunks[ks[j]]).some[2]]]]
    ELSE [tag |-> "Ok", rows |-> <<>>]

\* the filter of execute_palette_import on one row: "keep", "drop", or "panic"
ImportFilter(file, row, id_filter, count_threshold) ==
    IF id_filter = None THEN "keep"
    ELSE LET region == from_file_name(file) IN
         IF region.tag = "Panic" THEN "panic"
         ELSE IF region.tag # "Ok" THEN "drop"
         ELSE LET k == get_chunk(region, row.chunk_x, row.chunk_z) IN
              IF k = 0 THEN "drop"
              ELSE IF count_threshold # None
              THEN IF count_block(region.chunks[k], id_filter.some) >= count_threshold.some
                   THEN "keep" ELSE "drop"
              ELSE IF count_block(region.chunks[k], id_filter.some) > 0
                   THEN "keep" ELSE "drop"

\* optimize_palette_import: the indices (from 0) of the chunks at the row's position
import_indices(region, palette_result) ==
    SortedSeq({i \in 0..(Len(region.chunks) - 1) :
                 get_position(region.chunks[i + 1])
                   = Some(<<palette_result.chunk_x, palette_result.chunk_z>>)})

\* optimize_palette_import, the arm for a region that could not be parsed
import_unparsed(file, isLocked) ==
    LET r == remove_file(file, isLocked)
    IN  [tag |-> IF r.ok THEN "Ok" ELSE "Err",
         result |-> [Zero EXCEPT !.deleted_regions = 1],
         file |-> r.file, io |-> "remove"]

\* optimize_palette_import after Region::from_file_name returned `parsed`:
\* the removals, then the file operation on the file as it is by then
optimize_palette_import(parsed, palette_result, file, isLocked) ==
    IF parsed.tag = "Ok"
    THEN LET indices == import_indices(parsed, palette_result)
             region == RemoveIndices(parsed, indices)
             counted == [Zero EXCEPT !.deleted_chunks = Len(indices)]
         IN  IF region.tag = "Panic"
             THEN [tag |-> "Panic", result |-> Zero, file |-> file, io |-> "none"]
             ELSE IF is_empty(region)
             THEN LET r == remove_file(file, isLocked)
                  IN  [tag |-> IF r.ok THEN "Ok" ELSE "Err",
                       result |-> [counted EXCEPT !.deleted_regions = 1],
                       file |-> r.file, io |-> "remove"]
             ELSE IF is_modified(region)
             THEN LET r == fs_write(file, isLocked, to_bytes(region, IMPORT_LEVEL))
                  IN  [tag |-> IF r.ok THEN "Ok" ELSE "Err", result |-> counted,
                       file |-> r.file, io |-> "write"]
             ELSE [tag |-> "Ok", result |-> counted, file |-> file, io |-> "none"]
    ELSE import_unparsed(file, isLocked)

(* ----------------------- the files and inputs tried ------------------- *)

STONE == "minecraft:stone"

\* a chunk's tree: the four tags consulted, the count of each block id in its
\* palettes, and the lengths of its encoding (plain and compressed)
Tree(status, inhabited, x, z, stone, size, zsize) ==
    [tags |-> [Status |-> status, InhabitedTime |-> inhabited, xPos |-> x, zPos |-> z],
     palette |-> [id \in {STONE} |-> stone], size |-> size, zsize |-> zsize]

KeepA == Tree(StringTag(STATUS_FULL), LongTag(5), IntTag(32), IntTag(0), 3, 5000, 100)
KeepB == Tree(StringTag(STATUS_FULL), LongTag(1), IntTag(33), IntTag(0), 0, 9000, 4092)
DropA == Tree(StringTag("minecraft:features"), LongTag(7), IntTag(32), IntTag(0), 3, 5000, 100)
DropB == Tree(StringTag(STATUS_FULL), LongTag(0), IntTag(33), IntTag(0), 1, 600, 200)
KeepNoPos == Tree(StringTag(STATUS_FULL), LongTag(5), LongTag(32), IntTag(0), 0, 600, 200)

\* a record as it lies in a file: scheme byte and payload
Stored(byte, nbt) ==
    [scheme |-> byte,
     payload |-> [codec |-> from_u8(byte).tag, tree |-> nbt, len |-> nbt.zsize]]

\* the records an initial file may hold: decodable ones under each scheme, one
\* under a scheme byte the program does not know, one whose payload no decoder accepts
Records ==
    {Stored(2, KeepA), Stored(1, KeepB), Stored(4, DropA), Stored(2, DropB),
     Stored(2, KeepNoPos),
     [scheme |-> 3, payload |-> [codec |-> "Lz4", tree |-> KeepA, len |-> 300]],
     [scheme |-> 2, payload |-> [codec |-> "none", tree |-> None, len |-> 300]]}

\* what an initial file has at a slot: nothing, a record, or a location that
\* points past the end of the file
SlotChoices ==
    {[kind |-> "empty"], [kind |-> "dangling"]} \cup {[kind |-> "rec", rec |-> r] : r \in Records}

\* the file whose slot k holds f[k], its records laid out in slot order
InitFile(f) ==
    LET used == SortedSeq({k \in DOMAIN f : f[k].kind = "rec"})
        data == [j \in 1..Len(used) |-> f[used[j]].rec]
        rank(k) == CHOOSE j \in 1..Len(used) : used[j] = k
        entry(k) ==
            IF f[k].kind = "rec"
            THEN to_location_bytes(LocationNew(RecordStart(data, rank(k)),
                                               RecordBytes(f[k].rec), 0))
            ELSE to_location_bytes(LocationNew(HEADER_SIZE + DataLen(data), SECTOR_SIZE, 0))
        indices == {4 * k : k \in {k \in DOMAIN f : f[k].kind # "empty"}}
    IN  [st |-> "ok", len |-> HEADER_SIZE + DataLen(data),
         loc |-> [i \in indices |-> entry(i \div 4)],
         ts |-> [i \in indices |-> 100 + (i \div 4)],
         data |-> data]

\* a file shorter than the header, and one that exists but cannot be read
Short == [st |-> "ok", len |-> 100, loc |-> EmptyTable, ts |-> EmptyTable, data |-> <<>>]
Unreadable == [st |-> "unreadable", len |-> 0, loc |-> EmptyTable, ts |-> EmptyTable, data |-> <<>>]

P1 == "r.1.0.mca"
P2 == "r.2.0.mca"
Paths == {P1, P2}

InitFiles1 == {InitFile(f) : f \in [0..(MaxChunks - 1) -> SlotChoices]} \cup {Short, Unreadable}
InitFiles2 == {Missing, Short, InitFile([k \in {0} |-> [kind |-> "rec", rec |-> Stored(2, KeepA)]])}

\* the compression levels tried (validate_compression_level admits 0..9)
Levels == {0, 6}

\* the filters tried: none, a block id, a block id with a count threshold
Filters ==
    {[id |-> None, thr |-> None], [id |-> Some(STONE), thr |-> None],
     [id |-> Some(STONE), thr |-> Some(2)]}

Row(path, x, z) == [region_file_path |-> path, chunk_x |-> x, chunk_z |-> z]
RowList == <<Row(P1, 32, 0), Row(P1, 33, 0), Row(P2, 32, 0)>>

\* the CSV files tried: 1..MaxRows rows of RowList, in the order of RowList
\* (the workers run in every order, so the order of the rows adds nothing)
CsvFiles ==
    {[k \in 1..Len(c) |-> RowList[c[k]]] :
       c \in {c \in UNION {[1..n -> 1..Len(RowList)] : n \in 1..MaxRows} :
                \A k \in 1..(Len(c) - 1) : c[k] <= c[k + 1]}}

(* ------------------------------- state -------------------------------- *)

VARIABLES
    files,      \* path -> the file there
    locked,     \* the paths on which remove_file and write fail
    mode,       \* the command running: "idle", "write", "export", "import"
    params,     \* its compression level and filter
    todo,       \* write, export: the entries not yet processed
    agg,        \* the sum of the Ok results collected so far
    changed,    \* the paths the run has written or removed
    panicked,   \* whether a worker of the run has panicked
    prev,       \* the command that ran before this one ("panic" if it panicked)
    last,       \* the last per-file operation: its path, the file before, its outcome
    rows,       \* import: the rows that passed the filter
    wpc,        \* import: each row's worker: "ready", "loaded", "done", "panicked"
    wreg,       \* import: the region each worker has parsed
    csvOut,     \* export: the rows collected
    probe,      \* a chunk parsed on its own, None before
    verdict     \* what should_delete said of it, None before

vars ==
    <<files, locked, mode, params, todo, agg, changed, panicked, prev, last,
      rows, wpc, wreg, csvOut, probe, verdict>>

NoParams == [level |-> 0, id |-> None, thr |-> None, named |-> FALSE]
NoOp == [op |-> "none", path |-> P1, before |-> Missing, parsed |-> "none",
         tag |-> "none", result |-> Zero, io |-> "none"]

\* no command is running: nothing of a run is left but the files
Idle ==
    /\ mode = "idle" /\ params = NoParams /\ todo = {} /\ agg = Zero
    /\ changed = {} /\ panicked = FALSE /\ last = NoOp
    /\ rows = <<>> /\ wpc = <<>> /\ wreg = <<>> /\ csvOut = <<>>

Init ==
    /\ files \in {[p \in Paths |-> IF p = P1 THEN f1 ELSE f2] :
                    f1 \in InitFiles1, f2 \in InitFiles2}
    /\ locked = {}
    /\ Idle
    /\ prev = "none"
    /\ probe = None /\ verdict = None

\* get_region_files: the region files found under the world paths
get_region_files == {p \in Paths : files[p].st # "missing"}

ImportVars == <<rows, wpc, wreg>>
ProbeVars == <<probe, verdict, locked>>

\* the process ends (after its report, or by its panic): the next one starts afresh
EndRun ==
    /\ prev' = IF panicked THEN "panic" ELSE mode
    /\ mode' = "idle" /\ params' = NoParams /\ todo' = {} /\ agg' = Zero
    /\ changed' = {} /\ panicked' = FALSE /\ last' = NoOp
    /\ rows' = <<>> /\ wpc' = <<>> /\ wreg' = <<>> /\ csvOut' = <<>>
    /\ UNCHANGED <<files, ProbeVars>>

(* ------------------------------ write --------------------------------- *)

\* execute_write: the entries are listed
StartWrite(level) ==
    /\ mode = "idle"
    /\ mode' = "write"
    /\ params' = [NoParams EXCEPT !.level = level]
    /\ todo' = get_region_files
    /\ UNCHANGED <<files, agg, changed, panicked, prev, last, csvOut, ImportVars, ProbeVars>>

\* one worker of execute_write: optimize_write on one entry, its Ok result collected
Write(p) ==
    /\ mode = "write" /\ p \in todo
    /\ LET out == optimize_write(files[p], p \in locked, params.level) IN
         /\ files' = [files EXCEPT ![p] = out.file]
         /\ agg' = IF out.tag = "Ok" THEN Merge(agg, out.result) ELSE agg
         /\ changed' = IF out.file # files[p] THEN changed \cup {p} ELSE changed
         /\ panicked' = (panicked \/ out.tag = "Panic")
         /\ last' = [op |-> "write", path |-> p, before |-> files[p],
                     parsed |-> from_file_name(files[p]).tag,
                     tag |-> out.tag, result |-> out.result, io |-> out.io]
    /\ todo' = todo \ {p}
    /\ UNCHANGED <<mode, params, prev, csvOut, ImportVars, ProbeVars>>

\* execute_write: every entry is done, the results are reduced and printed
FinishWrite ==
    /\ mode = "write" /\ todo = {}
    /\ EndRun

(* ------------------------------ export -------------------------------- *)

StartExport(filter) ==
    /\ mode = "idle"
    /\ mode' = "export"
    /\ params' = [NoParams EXCEPT !.id = filter.id, !.thr = filter.thr]
    /\ todo' = get_region_files
    /\ UNCHANGED <<files, agg, changed, panicked, prev, last, csvOut, ImportVars, ProbeVars>>

\* one worker of execute_palette_export
Export(p) ==
    /\ mode = "export" /\ p \in todo
    /\ LET out == optimize_palette_export(p, files[p], params.id, params.thr) IN
         /\ csvOut' = csvOut \o out.rows
         /\ panicked' = (panicked \/ out.tag = "Panic")
         /\ last' = [op |-> "export", path |-> p, before |-> files[p],
                     parsed |-> from_file_name(files[p]).tag,
                     tag |-> out.tag, result |-> Zero, io |-> "none"]
    /\ todo' = todo \ {p}
    /\ UNCHANGED <<files, mode, params, agg, changed, prev, ImportVars, ProbeVars>>

\* execute_palette_export: the rows are written to the CSV file
FinishExport ==
    /\ mode = "export" /\ todo = {}
    /\ EndRun

(* ------------------------------ import -------------------------------- *)

\* execute_palette_import up to the parallel loop: the rows are read and
\* filtered one after the other; a panic in the filter ends the process
StartImport(csv, filter) ==
    /\ mode = "idle"
    /\ LET verdicts == [k \in 1..Len(csv) |->
                          ImportFilter(files[csv[k].region_file_path], csv[k],
                                       filter.id, filter.thr)]
           kept == SelectSeq([k \in 1..Len(csv) |-> [row |-> csv[k], v |-> verdicts[k]]],
                             LAMBDA e : e.v = "keep")
           named == /\ \A j, k \in 1..Len(csv) : j # k => csv[j] # csv[k]
                    /\ \A k \in 1..Len(csv) :
                         LET r == from_file_name(files[csv[k].region_file_path])
                         IN  r.tag = "Ok" /\ get_chunk(r, csv[k].chunk_x, csv[k].chunk_z) # 0
       IN  IF \E k \in 1..Len(csv) : verdicts[k] = "panic"
           THEN /\ prev' = "panic"
                /\ UNCHANGED <<mode, params, rows, wpc, wreg>>
           ELSE /\ mode' = "import"
                /\ params' = [level |-> IMPORT_LEVEL, id |-> filter.id, thr |-> filter.thr,
                              named |-> named]
                /\ rows' = [k \in 1..Len(kept) |-> kept[k].row]
                /\ wpc' = [k \in 1..Len(kept) |-> "ready"]
                /\ wreg' = [k \in 1..Len(kept) |-> [tag |-> "none"]]
                /\ UNCHANGED prev
    /\ UNCHANGED <<files, todo, agg, changed, panicked, last, csvOut, ProbeVars>>

\* a worker of the parallel loop: Region::from_file_name in optimize_palette_import
ImportRead(w) ==
    /\ mode = "import" /\ w \in DOMAIN wpc /\ wpc[w] = "ready"
    /\ LET parsed == from_file_name(files[rows[w].region_file_path]) IN
         /\ wreg' = [wreg EXCEPT ![w] = parsed]
         /\ wpc' = [wpc EXCEPT ![w] = IF parsed.tag = "Panic" THEN "panicked" ELSE "loaded"]
         /\ panicked' = (panicked \/ parsed.tag = "Panic")
    /\ UNCHANGED <<files, mode, params, todo, agg, changed, prev, last, rows,
                   csvOut, ProbeVars>>

\* the same worker: the rest of optimize_palette_import, its Ok result collected
ImportWrite(w) ==
    /\ mode = "import" /\ w \in DOMAIN wpc /\ wpc[w] = "loaded"
    /\ LET p == rows[w].region_file_path
           out == optimize_palette_import(wreg[w], rows[w], files[p], p \in locked)
       IN  /\ files' = [files EXCEPT ![p] = out.file]
           /\ agg' = IF out.tag = "Ok" THEN Merge(agg, out.result) ELSE agg
           /\ changed' = IF out.file # files[p] THEN changed \cup {p} ELSE changed
           /\ panicked' = (panicked \/ out.tag = "Panic")
           /\ last' = [op |-> "import", path |-> p, before |-> files[p],
                       parsed |-> wreg[w].tag,
                       tag |-> out.tag, result |-> out.result, io |-> out.io]
    /\ wpc' = [wpc EXCEPT ![w] = "done"]
    /\ UNCHANGED <<mode, params, todo, prev, rows, wreg, csvOut, ProbeVars>>

\* execute_palette_import: every worker is done, the results are reduced and printed
FinishImport ==
    /\ mode = "import"
    /\ \A w \in DOMAIN wpc : wpc[w] \in {"done", "panicked"}
    /\ EndRun

(* --------------------------- specifications --------------------------- *)

\* runs of the write command, one after the other
NextWrite ==
    \/ \E level \in Levels : StartWrite(level)
    \/ \E p \in Paths : Write(p)
    \/ FinishWrite

SpecWrite == Init /\ [][NextWrite]_vars

\* the same files, with any of the paths refusing remove_file and write (a
\* read-only directory, a file held open elsewhere)
InitFaulty ==
    /\ files \in {[p \in Paths |-> IF p = P1 THEN f1 ELSE f2] :
                    f1 \in InitFiles1, f2 \in InitFiles2}
    /\ locked \in SUBSET Paths
    /\ Idle
    /\ prev = "none"
    /\ probe = None /\ verdict = None

\* runs of the write command on a file system whose operations may fail
SpecWriteFaulty == InitFaulty /\ [][NextWrite]_vars

\* files of one more slot whose records all decode: kept and deleted chunks,
\* in their own slot or in another, each slot with its own timestamp
StampSlots ==
    {[kind |-> "empty"]}
      \cup {[kind |-> "rec", rec |-> r] :
               r \in {Stored(2, KeepA), Stored(1, KeepB), Stored(2, DropB)}}
InitFiles3 == {InitFile(f) : f \in [0..MaxChunks -> StampSlots]}

InitStamps ==
    /\ files \in {[p \in Paths |-> IF p = P1 THEN f1 ELSE Missing] : f1 \in InitFiles3}
    /\ locked = {}
    /\ Idle
    /\ prev = "none"
    /\ probe = None /\ verdict = None

\* runs of the write command on those files
SpecWriteStamps == InitStamps /\ [][NextWrite]_vars

\* runs of the palette command, exporting or importing, one after the other
NextPalette ==
    \/ \E filter \in Filters : StartExport(filter)
    \/ \E p \in Paths : Export(p)
    \/ FinishExport
    \/ \E csv \in CsvFiles, filter \in Filters : StartImport(csv, filter)
    \/ \E w \in 1..MaxRows : ImportRead(w)
    \/ \E w \in 1..MaxRows : ImportWrite(w)
    \/ FinishImport

SpecPalette == Init /\ [][NextPalette]_vars

(* ------------------ the deletion predicate on its own ----------------- *)

\* the Status and InhabitedTime tags tried: absent, of another kind, and the
\* values on either side of each comparison
ProbeStatuses ==
    {NoTag, IntTag(1), StringTag(STATUS_FULL), StringTag("minecraft:features")}
ProbeTimes == {NoTag, IntTag(5), LongTag(0 - 1), LongTag(0), LongTag(1), LongTag(5)}

\* the records tried: every pair of tags under each known scheme, records
\* under unknown scheme bytes (whatever they hold), and an undecodable one
ProbeRecords ==
    {Stored(b, Tree(s, t, IntTag(32), IntTag(0), 0, 600, 200)) :
       b \in {1, 2, 4}, s \in ProbeStatuses, t \in ProbeTimes}
    \cup {[scheme |-> b, payload |-> pl] :
            b \in {0, 3, 5},
            pl \in {[codec |-> "none", tree |-> None, len |-> 300],
                    [codec |-> "Lz4", tree |-> KeepA, len |-> 300]}}
    \cup {[scheme |-> 2, payload |-> [codec |-> "none", tree |-> None, len |-> 300]]}

InitChunk ==
    /\ files \in {[p \in Paths |->
                     IF p = P1 THEN InitFile([k \in {0} |-> [kind |-> "rec", rec |-> r]])
                     ELSE Missing] : r \in ProbeRecords}
    /\ locked = {}
    /\ Idle
    /\ prev = "none"
    /\ probe = None /\ verdict = None

RunVars ==
    <<mode, params, todo, agg, changed, panicked, prev, last, rows, wpc, wreg, csvOut>>

\* Chunk::from_location on the record of the file's first slot
ParseProbe ==
    /\ probe = None
    /\ LET file == files[P1]
           r == from_location(file, LocationFromBytes(get_u32(file.loc, 0),
                                                      get_u32(file.ts, 0)))
       IN  /\ r.tag = "Ok"
           /\ probe' = r.chunk
    /\ UNCHANGED <<files, locked, verdict, RunVars>>

\* Chunk::should_delete on the chunk parsed
Decide ==
    /\ probe # None /\ verdict = None
    /\ verdict' = Some(should_delete(probe))
    /\ UNCHANGED <<files, locked, probe, RunVars>>

NextChunk == ParseProbe \/ Decide

SpecChunk == InitChunk /\ [][NextChunk]_vars

(* --------------------- the region codec on its own -------------------- *)

\* a region file is parsed and written back whole: Region::from_file_name,
\* then Region::to_bytes at a level, with no chunk removed in between
Reencode(p, level) ==
    /\ mode = "idle"
    /\ LET region == from_file_name(files[p]) IN
         /\ region.tag = "Ok"
         /\ files' = [files EXCEPT ![p] = to_bytes(region, level)]
         /\ last' = [op |-> "reencode", path |-> p, before |-> files[p],
                     parsed |-> region.tag, tag |-> "Ok", result |-> Zero,
                     io |-> "write"]
    /\ params' = [NoParams EXCEPT !.level = level]
    /\ UNCHANGED <<mode, todo, agg, changed, panicked, prev, csvOut, ImportVars, ProbeVars>>

NextCodec == \E p \in Paths, level \in Levels : Reencode(p, level)

SpecCodec == Init /\ [][NextCodec]_vars

\* runs of either command, in any order
Next == NextWrite \/ NextPalette

Spec == Init /\ [][Next]_vars

(* ------------------------------ claims -------------------------------- *)

\* what the claims say of a tree, read off its tags directly
StatusIsFull(nbt) ==
    nbt.tags["Status"].kind = "String" /\ nbt.tags["Status"].s = "minecraft:full"
InhabitedValue(nbt) ==
    IF nbt.tags["InhabitedTime"].kind = "Long" THEN nbt.tags["InhabitedTime"].n ELSE 0

\* the chunks of a sequence that should_delete spares, in their order
Survivors(chunks) == SelectSeq(chunks, LAMBDA c : ~should_delete(c))

\* a write worker has just processed a file it could parse
WriteDone == last.op = "write" /\ last.parsed = "Ok"

\* C1 as claimed: when the write command runs right after a run of the write
\* command, it reports no deleted chunk and no deleted region, and it neither
\* rewrites nor removes any file.
C1_SweepIdempotent ==
    (mode = "write" /\ prev = "write" /\ todo = {} /\ ~panicked)
        => (agg.deleted_chunks = 0 /\ agg.deleted_regions = 0 /\ changed = {})

\* C2: for a decoded chunk, should_delete is true exactly when Status is not
\* the string "minecraft:full" or InhabitedTime is <= 0, an absent or
\* wrongly typed Status counting as not full and an absent or wrongly typed
\* InhabitedTime as 0.
C2_DeletionPredicate ==
    (verdict # None /\ probe.nbt # None)
        => (verdict.some <=> (~StatusIsFull(probe.nbt) \/ InhabitedValue(probe.nbt) <= 0))

\* a full, inhabited chunk was decided and kept
C2_Witness ==
    /\ verdict # None /\ probe.nbt # None
    /\ StatusIsFull(probe.nbt) /\ InhabitedValue(probe.nbt) > 0
    /\ verdict.some = FALSE

\* C3: after optimize_write on a file that parsed, exactly one of: no chunk
\* is left, the file is removed (not written) and one deleted region is
\* counted; else a chunk was removed and the file holds to_bytes of the
\* chunks left; else the file is as it was.
C3_SweepOutcome ==
    WriteDone =>
        LET parsed == from_file_name(last.before)
            left == Survivors(parsed.chunks)
            after == files[last.path]
        IN  /\ left = <<>> =>
                  /\ last.io = "remove" /\ after = Missing
                  /\ last.result.deleted_regions = 1
            /\ (left # <<>> /\ Len(left) < Len(parsed.chunks)) =>
                  /\ last.io = "write" /\ last.result.deleted_regions = 0
                  /\ after = to_bytes([tag |-> "Ok", chunks |-> left, is_modified |-> TRUE],
                                      params.level)
            /\ (left # <<>> /\ Len(left) = Len(parsed.chunks)) =>
                  /\ last.io = "none" /\ last.result.deleted_regions = 0
                  /\ after = last.before

\* a file was rewritten with the chunks left after a removal
C3_Witness ==
    /\ WriteDone /\ last.io = "write"
    /\ last.result.deleted_chunks > 0
    /\ files[last.path].st = "ok" /\ files[last.path].data # <<>>

WellFormed(file) ==
    /\ file.st = "ok" /\ file.len >= HEADER_SIZE
    /\ \A i \in DOMAIN file.loc :
          LET r == from_location(file, LocationFromBytes(get_u32(file.loc, i),
                                                        get_u32(file.ts, i)))
          IN  /\ r.tag = "Ok"
              /\ get_position(r.chunk) # None
              /\ get_position_in_table(get_position(r.chunk).some[1],
                                       get_position(r.chunk).some[2]) = i

\* the positions looked up: those of the records tried, and others
TestCoords == {<<32, 0>>, <<33, 0>>, <<0, 0>>, <<1, 0>>, <<32, 1>>}

C7_OpaqueNeverFlagged ==
    (verdict # None /\ probe.nbt = None /\ probe.compression_scheme.tag = "Unknown")
        => verdict.some = FALSE

\* C8 as claimed: parsing a readable file with a whole header returns a
\* region that holds one chunk for every non-empty slot of the location
\* table, whatever the records are.
C8_RecordFailureKept ==
    (last.op = "write" /\ last.before.st = "ok" /\ last.before.len >= HEADER_SIZE) =>
        LET parsed == from_file_name(last.before)
        IN  /\ parsed.tag = "Ok"
            /\ Len(parsed.chunks) = Cardinality(DOMAIN last.before.loc)

\* C9: optimize_write on a file that cannot be read, or is shorter than the
\* header, removes the file and returns Ok with one deleted region, no chunk
\* examined and none deleted.
C9_UnparsedIsDeleted ==
    (last.op = "write" /\ last.parsed \in {"ReadError", "HeaderError"}) =>
        /\ files[last.path] = Missing
        /\ last.io = "remove" /\ last.tag = "Ok"
        /\ last.result = [total_chunks |-> 0, deleted_chunks |-> 0, deleted_regions |-> 1]
        /\ agg.deleted_regions >= 1

\* a file shorter than the header was swept
C9_Witness ==
    /\ last.op = "write" /\ last.parsed = "HeaderError"
    /\ last.before.st = "ok" /\ last.before.len < HEADER_SIZE
    /\ files[last.path] = Missing

\* an import has ended with every worker done and none panicked
ImportDone ==
    /\ mode = "import" /\ ~panicked
    /\ \A w \in DOMAIN wpc : wpc[w] = "done"

\* C4 as claimed: after an import with no filter of rows that name distinct
\* chunks, each present when the import starts, none of the chunks named is
\* found in its region file, however the workers interleave.
C4_ImportDeletesAll ==
    (ImportDone /\ params.id = None /\ params.named) =>
        \A w \in DOMAIN rows :
          LET region == from_file_name(files[rows[w].region_file_path])
          IN  region.tag = "Ok" => get_chunk(region, rows[w].chunk_x, rows[w].chunk_z) = 0

\* what an operation contributes to the results collected
Contributed == IF last.tag = "Ok" THEN last.result ELSE Zero

\* C10 as claimed: in export and import, a file that cannot be read, or is
\* shorter than the header, is left as it is and contributes nothing.
C10_UnreadableSkipped ==
    (last.op \in {"export", "import"} /\ last.parsed \in {"ReadError", "HeaderError"}) =>
        /\ files[last.path] = last.before
        /\ last.io = "none"
        /\ Contributed = Zero

\* C11 as claimed: when a write worker ends without a panic, also one whose
\* remove_file or write failed, the run goes on with the entries that are
\* left, and the worker's result (its counts of chunks and regions) is added
\* to the results collected.
C11_IoFailureFolded ==
    [][(mode = "write" /\ todo' # todo /\ last'.tag # "Panic") =>
          /\ mode' = "write" /\ todo' = todo \ {last'.path}
          /\ agg' = Merge(agg, last'.result)]_vars

\* no two chunks of the sequence have positions of the same table slot
OnePerSlot(chunks) ==
    \A j, k \in 1..Len(chunks) :
      LET pj == get_position(chunks[j])
          pk == get_position(chunks[k])
      IN  (j # k /\ pj # None /\ pk # None) =>
            get_position_in_table(pj.some[1], pj.some[2])
              # get_position_in_table(pk.some[1], pk.some[2])

\* C12 as claimed: the region optimize_write parses from a file, and the
\* region it has after its removals, hold at most one chunk per table slot:
\* no two of their chunks have positions (x, z) with the same (x & 31, z & 31).
C12_OneRecordPerSlot ==
    WriteDone =>
        LET parsed == from_file_name(last.before)
            region == RemoveIndices(parsed, chunks_to_delete_indices(parsed))
        IN  /\ OnePerSlot(parsed.chunks)
            /\ region.tag = "Ok" => OnePerSlot(region.chunks)

\* C13 as claimed: the file to_bytes returns holds, after the two tables, the
\* region's chunks in their order, each serialized and padded to the next
\* multiple of 4096 bytes; the k-th starts at 8192 plus the padded sizes of
\* those before it, so no two overlap and the length is 8192 plus a multiple
\* of 4096; and for every chunk with a position the location entry at its
\* slot designates that chunk's own padded range.
C13_ToBytesLayout ==
    last.op = "reencode" =>
        LET chunks == from_file_name(last.before).chunks
            out == files[last.path]
            n == Len(out.data)
            raw(k) == out.data[k].payload.len + CHUNK_HEADER_SIZE
            padded(k) == RecordBytes(out.data[k])
            start(k) == RecordStart(out.data, k)
        IN  /\ n = Len(chunks)
            /\ \A k \in 1..n :
                  /\ out.data[k] = ChunkToBytes(chunks[k], params.level)
                  /\ padded(k) % 4096 = 0
                  /\ padded(k) >= raw(k) /\ padded(k) - raw(k) < 4096
                  /\ start(k) >= 8192 /\ (start(k) - 8192) % 4096 = 0
                  /\ \A j \in 1..(k - 1) : start(j) + padded(j) <= start(k)
                  /\ start(k) + padded(k) <= out.len
            /\ out.len >= 8192 /\ (out.len - 8192) % 4096 = 0
            /\ \A k \in 1..n :
                  LET pos == get_position(chunks[k])
                      slot == get_position_in_table(pos.some[1], pos.some[2])
                      entry == LocationFromBytes(get_u32(out.loc, slot),
                                                 get_u32(out.ts, slot))
                  IN  pos # None =>
                        /\ get_offset(entry) = start(k)
                        /\ entry.size * 4096 = padded(k)

\* C14 as claimed: when optimize_write rewrites a file, then for every chunk
\* left that has a position (x, z), the timestamp table of the file written
\* holds, at the slot of (x, z), the timestamp from_bytes read for that
\* chunk from the file as it was.
C14_TimestampsKept ==
    (WriteDone /\ last.io = "write" /\ last.tag = "Ok") =>
        LET left == Survivors(from_file_name(last.before).chunks)
            out == files[last.path]
        IN  \A k \in 1..Len(left) :
              LET pos == get_position(left[k])
                  slot == get_position_in_table(pos.some[1], pos.some[2])
              IN  pos # None => get_u32(out.ts, slot) = get_timestamp(left[k].location)
====
